---- MODULE Spec2Model ----
(***************************************************************************)
(* Model of the CloudWatch log shipping engine (src/src/modules/           *)
(* cloud-watch.ts), of the two callers of the engine (the logging          *)
(* middleware and the error handler) and of the server start-up            *)
(* (src/server.ts).                                                        *)
(*                                                                         *)
(* A JavaScript string is a sequence of chunks; a chunk is a TLA+ string   *)
(* holding one character, or a fixed piece of text of a template literal   *)
(* that holds unreserved URI characters only where it can reach            *)
(* encodeURIComponent.  Glyphs are written by their names.                 *)
(***************************************************************************)
EXTENDS Integers, Sequences, FiniteSets, TLC

(* ------------------------------ bounds -------------------------------- *)

\* number of logApiRequest / logError calls of one run
NTasks == 2
\* number of UTC midnights that may pass in one run
MaxClock == 1
\* largest status code and response time the formatter is applied to
MaxStatus == 601
MaxTime == 2001

Tasks == 1..NTasks

(* --------------------------- string helpers --------------------------- *)

RECURSIVE Flatten(_)
\* concatenation of a sequence of strings
Flatten(ss) == IF ss = <<>> THEN <<>> ELSE Head(ss) \o Flatten(Tail(ss))

RECURSIVE Join(_, _)
\* Array.prototype.join: the parts with the separator between them
Join(parts, sep) ==
  IF parts = <<>> THEN <<>>
  ELSE IF Len(parts) = 1 THEN Head(parts)
  ELSE Head(parts) \o sep \o Join(Tail(parts), sep)

\* String.prototype.includes
Includes(s, sub) ==
  \/ sub = <<>>
  \/ \E i \in 1..(Len(s) - Len(sub) + 1) :
       s[i] = sub[1] /\ SubSeq(s, i, i + Len(sub) - 1) = sub

Digit(n) ==
  CASE n = 0 -> "0" [] n = 1 -> "1" [] n = 2 -> "2" [] n = 3 -> "3"
    [] n = 4 -> "4" [] n = 5 -> "5" [] n = 6 -> "6" [] n = 7 -> "7"
    [] n = 8 -> "8" [] n = 9 -> "9"

RECURSIVE NatStr(_)
NatStr(n) == IF n < 10 THEN <<Digit(n)>> ELSE NatStr(n \div 10) \o <<Digit(n % 10)>>

\* Number.prototype.toString of an integer, as a template literal renders it
NumStr(n) == IF n < 0 THEN <<"-">> \o NatStr(0 - n) ELSE NatStr(n)

\* String.prototype.padStart(w, "0") of a number
PadStart(n, w) ==
  LET s == NatStr(n) IN
  IF Len(s) >= w THEN s ELSE [i \in 1..(w - Len(s)) |-> "0"] \o s

(* ------------------------------- dates -------------------------------- *)

\* the UTC day on which the run starts
StartDate == [y |-> 2024, m |-> 12, d |-> 31]

IsLeap(y) == (y % 4 = 0 /\ y % 100 # 0) \/ y % 400 = 0

DaysInMonth(y, m) ==
  IF m = 2 THEN (IF IsLeap(y) THEN 29 ELSE 28)
  ELSE IF m \in {4, 6, 9, 11} THEN 30 ELSE 31

NextDay(dt) ==
  IF dt.d < DaysInMonth(dt.y, dt.m) THEN [dt EXCEPT !.d = dt.d + 1]
  ELSE IF dt.m < 12 THEN [dt EXCEPT !.m = dt.m + 1, !.d = 1]
  ELSE [y |-> dt.y + 1, m |-> 1, d |-> 1]

RECURSIVE DateOf(_)
\* the UTC calendar day after n midnights
DateOf(n) == IF n = 0 THEN StartDate ELSE NextDay(DateOf(n - 1))

\* new Date().toISOString().split("T")[0] at clock value n: YYYY-MM-DD
ISODate(n) ==
  LET dt == DateOf(n) IN
  PadStart(dt.y, 4) \o <<"-">> \o PadStart(dt.m, 2) \o <<"-">> \o PadStart(dt.d, 2)

(* ------------------------- encodeURIComponent -------------------------- *)

\* the characters encodeURIComponent leaves alone
Unreserved ==
  {"a", "b", "c", "d", "e", "f", "g", "h", "i", "j", "k", "l", "m", "n", "o",
   "p", "q", "r", "s", "t", "u", "v", "w", "x", "y", "z",
   "A", "B", "C", "D", "E", "F", "G", "H", "I", "J", "K", "L", "M", "N", "O",
   "P", "Q", "R", "S", "T", "U", "V", "W", "X", "Y", "Z",
   "0", "1", "2", "3", "4", "5", "6", "7", "8", "9",
   "-", "_", ".", "!", "~", "*", "'", "(", ")"}

\* the percent escape of one character outside Unreserved
PercentEscape(c) ==
  CASE c = "/" -> <<"%", "2", "F">>
    [] c = " " -> <<"%", "2", "0">>
    [] c = ":" -> <<"%", "3", "A">>
    [] c = "#" -> <<"%", "2", "3">>
    [] c = "?" -> <<"%", "3", "F">>
    [] c = "=" -> <<"%", "3", "D">>
    [] c = "%" -> <<"%", "2", "5">>

RECURSIVE encodeURIComponent(_)
encodeURIComponent(s) ==
  IF s = <<>> THEN <<>>
  ELSE (IF Head(s) \in Unreserved THEN <<Head(s)>> ELSE PercentEscape(Head(s)))
       \o encodeURIComponent(Tail(s))

\* generateCloudWatchLink with the names put into the link as they are
generateCloudWatchLinkRaw(region, logGroupName, logStreamName, errorId) ==
  <<"https://">> \o region \o <<".console.aws.amazon.com/cloudwatch/home">>
  \o <<"?">> \o <<"region=">> \o region
  \o <<"#logsV2:log-groups/log-group/">> \o logGroupName
  \o <<"/log-events/">> \o logStreamName
  \o <<"?filterPattern=">> \o errorId

\* cloud-watch.ts generateCloudWatchLink; region is process.env.AWS_REGION
generateCloudWatchLink(region, logGroupName, logStreamName, errorId) ==
  LET encodedLogGroup == encodeURIComponent(logGroupName)
      encodedLogStream == encodeURIComponent(logStreamName)
      baseUrl == <<"https://">> \o region \o <<".console.aws.amazon.com/cloudwatch/home">>
      params == Flatten(<<
        <<"region=">> \o region,
        <<"#logsV2:log-groups/log-group/">> \o encodedLogGroup
          \o <<"/log-events/">> \o encodedLogStream,
        <<"?filterPattern=">> \o encodeURIComponent(errorId) >>)
  IN baseUrl \o <<"?">> \o params

(* --------------------------- JavaScript values ------------------------- *)

\* The request and response bodies an event can carry, by name:
\*   undefined, null, {} , {a: 1}, an object that refers to itself, [],
\*   "", "  ", '{"a":1}', '{}', 'null', 'hello'
JsValues ==
  {"undefined", "null", "emptyObject", "object", "circular", "emptyArray",
   "emptyString", "blankString", "jsonObjectString", "jsonEmptyObjectString",
   "jsonNullString", "plainString"}

JsStrings ==
  {"emptyString", "blankString", "jsonObjectString", "jsonEmptyObjectString",
   "jsonNullString", "plainString"}

\* ToBoolean
Truthy(v) == v \notin {"undefined", "null", "emptyString"}

\* Object.keys(v).length of a truthy value (a string has one key per character)
KeysLength(v) ==
  CASE v = "emptyObject" -> 0 [] v = "emptyArray" -> 0
    [] v = "object" -> 1 [] v = "circular" -> 2
    [] v = "blankString" -> 2 [] v = "jsonObjectString" -> 7
    [] v = "jsonEmptyObjectString" -> 2 [] v = "jsonNullString" -> 4
    [] v = "plainString" -> 5

\* the text of a string value
TextOf(v) ==
  CASE v = "emptyString" -> <<>>
    [] v = "blankString" -> <<" ", " ">>
    [] v = "jsonObjectString" -> <<"{", "\"a\":1", "}">>
    [] v = "jsonEmptyObjectString" -> <<"{", "}">>
    [] v = "jsonNullString" -> <<"null">>
    [] v = "plainString" -> <<"hello">>

\* JSON.parse of a string value: the value, or a SyntaxError
JsonParse(v) ==
  CASE v = "jsonObjectString" -> [threw |-> FALSE, value |-> "object"]
    [] v = "jsonEmptyObjectString" -> [threw |-> FALSE, value |-> "emptyObject"]
    [] v = "jsonNullString" -> [threw |-> FALSE, value |-> "null"]
    [] OTHER -> [threw |-> TRUE, value |-> "undefined"]

\* JSON.stringify(v, null, 2): the text, or a TypeError for a circular structure
JsonStringify(v) ==
  CASE v = "circular" -> [threw |-> TRUE, text |-> <<>>]
    [] v = "undefined" -> [threw |-> FALSE, text |-> <<"undefined">>]
    [] v = "null" -> [threw |-> FALSE, text |-> <<"null">>]
    [] v = "emptyObject" -> [threw |-> FALSE, text |-> <<"{", "}">>]
    [] v = "emptyArray" -> [threw |-> FALSE, text |-> <<"[", "]">>]
    [] v = "object" -> [threw |-> FALSE, text |-> <<"{", "\n  ", "\"a\": 1", "\n", "}">>]
    [] OTHER -> [threw |-> FALSE, text |-> <<"\"">> \o TextOf(v) \o <<"\"">>]

RECURSIVE Trim(_)
\* String.prototype.trim
Trim(s) ==
  IF s = <<>> THEN s
  ELSE IF Head(s) \in {" ", "\n", "\n  "} THEN Trim(Tail(s))
  ELSE IF s[Len(s)] \in {" ", "\n", "\n  "} THEN Trim(SubSeq(s, 1, Len(s) - 1))
  ELSE s

(* ------------------------------ formatter ------------------------------ *)

\* The glyphs, by name: CHECK is the white check mark, CYCLE the arrows,
\* WARNING the warning sign, CROSS the cross mark, CLIPBOARD the clipboard;
\* BOLT the high voltage sign and GREEN, YELLOW, ORANGE, RED the circles.

\* getStatusEmoji with the lower limit of the 2xx class taken exclusive
getStatusEmojiExclusive(statusCode) ==
  IF statusCode > 200 /\ statusCode < 300 THEN "CHECK"
  ELSE IF statusCode >= 300 /\ statusCode < 400 THEN "CYCLE"
  ELSE IF statusCode >= 400 /\ statusCode < 500 THEN "WARNING"
  ELSE IF statusCode >= 500 THEN "CROSS"
  ELSE "CLIPBOARD"

getStatusEmoji(statusCode) ==
  IF statusCode >= 200 /\ statusCode < 300 THEN "CHECK"
  ELSE IF statusCode >= 300 /\ statusCode < 400 THEN "CYCLE"
  ELSE IF statusCode >= 400 /\ statusCode < 500 THEN "WARNING"
  ELSE IF statusCode >= 500 THEN "CROSS"
  ELSE "CLIPBOARD"

\* getResponseTimeLabel with the breakpoints taken inclusive
getResponseTimeLabelInclusive(responseTime) ==
  IF responseTime <= 100 THEN "BOLT"
  ELSE IF responseTime <= 500 THEN "GREEN"
  ELSE IF responseTime <= 1000 THEN "YELLOW"
  ELSE IF responseTime <= 2000 THEN "ORANGE"
  ELSE "RED"

getResponseTimeLabel(responseTime) ==
  IF responseTime < 100 THEN "BOLT"
  ELSE IF responseTime < 500 THEN "GREEN"
  ELSE IF responseTime < 1000 THEN "YELLOW"
  ELSE IF responseTime < 2000 THEN "ORANGE"
  ELSE "RED"

\* formatApiLog, lines 225-249: the rendering of a truthy response body, or
\* the exception that leaves the try/catch
formatResponse(responseBody) ==
  LET isString == responseBody \in JsStrings
      parsed == IF isString THEN JsonParse(responseBody)
                ELSE [threw |-> FALSE, value |-> responseBody]
      first == IF parsed.threw THEN [threw |-> TRUE, text |-> <<>>]
               ELSE JsonStringify(parsed.value)
  IN IF ~first.threw THEN first
     ELSE IF isString THEN [threw |-> FALSE, text |-> TextOf(responseBody)]
     ELSE JsonStringify(responseBody)

\* apiRequestShown without the test of Object.keys
apiRequestShownTruthy(data) == Truthy(data.requestBody)

\* true when formatApiLog pushes the Request part
apiRequestShown(data) ==
  Truthy(data.requestBody) /\ KeysLength(data.requestBody) > 0

\* true when formatApiLog pushes the Response part
apiResponseShown(data) ==
  /\ Truthy(data.responseBody)
  /\ LET formattedResponse == formatResponse(data.responseBody).text IN
       /\ formattedResponse # <<>>
       /\ Trim(formattedResponse) # <<>>
       /\ formattedResponse # <<"{", "}">>

\* formatApiLog: [threw, text]; text is the log line when threw is FALSE
formatApiLog(data) ==
  LET statusEmoji == getStatusEmoji(data.statusCode)
      responseTimeLabel == getResponseTimeLabel(data.responseTime)
      head == << <<statusEmoji, " [">> \o data.method \o <<"] ">> \o data.endpoint,
                 <<"Status: ">> \o NumStr(data.statusCode),
                 <<"Response Time: ">> \o NumStr(data.responseTime)
                   \o <<"ms ", responseTimeLabel>> >>
      request == IF apiRequestShown(data)
                 THEN << <<"Request: ">> \o JsonStringify(data.requestBody).text >>
                 ELSE <<>>
      response == IF apiResponseShown(data)
                  THEN << <<"Response: ">> \o formatResponse(data.responseBody).text >>
                  ELSE <<>>
      ip == IF data.ip # <<>> THEN << <<"IP: ">> \o data.ip >> ELSE <<>>
      threw == \/ apiRequestShown(data) /\ JsonStringify(data.requestBody).threw
               \/ Truthy(data.responseBody) /\ formatResponse(data.responseBody).threw
  IN IF threw THEN [threw |-> TRUE, text |-> <<>>]
     ELSE [threw |-> FALSE, text |-> Join(head \o request \o response \o ip, <<" | ">>)]

\* true when formatErrorLog pushes the Request part
errorRequestShown(data) ==
  Truthy(data.requestBody) /\ KeysLength(data.requestBody) > 0

\* formatErrorLog with the Stack part pushed before the Request part
formatErrorLogStackFirst(data) ==
  LET head == << <<"ALARM", " [ERROR_ID: ">> \o data.errorId \o <<"]">>,
                 <<"[">> \o data.method \o <<"] ">> \o data.endpoint,
                 <<"Status: ">> \o NumStr(data.statusCode),
                 <<"Response Time: ">> \o NumStr(data.responseTime) \o <<"ms">>,
                 <<"Error: ">> \o data.error.message >>
      request == IF errorRequestShown(data)
                 THEN << <<"Request: ">> \o JsonStringify(data.requestBody).text >>
                 ELSE <<>>
      stack == IF data.error.stack # <<>>
               THEN << <<"Stack: ">> \o data.error.stack >> ELSE <<>>
      ip == IF data.ip # <<>> THEN << <<"IP: ">> \o data.ip >> ELSE <<>>
  IN IF errorRequestShown(data) /\ JsonStringify(data.requestBody).threw
     THEN [threw |-> TRUE, text |-> <<>>]
     ELSE [threw |-> FALSE, text |-> Join(head \o stack \o request \o ip, <<" | ">>)]

\* formatErrorLog: [threw, text]; data.error.stack and data.ip are the empty
\* string when absent
formatErrorLog(data) ==
  LET head == << <<"ALARM", " [ERROR_ID: ">> \o data.errorId \o <<"]">>,
                 <<"[">> \o data.method \o <<"] ">> \o data.endpoint,
                 <<"Status: ">> \o NumStr(data.statusCode),
                 <<"Response Time: ">> \o NumStr(data.responseTime) \o <<"ms">>,
                 <<"Error: ">> \o data.error.message >>
      request == IF errorRequestShown(data)
                 THEN << <<"Request: ">> \o JsonStringify(data.requestBody).text >>
                 ELSE <<>>
      stack == IF data.error.stack # <<>>
               THEN << <<"Stack: ">> \o data.error.stack >> ELSE <<>>
      ip == IF data.ip # <<>> THEN << <<"IP: ">> \o data.ip >> ELSE <<>>
  IN IF errorRequestShown(data) /\ JsonStringify(data.requestBody).threw
     THEN [threw |-> TRUE, text |-> <<>>]
     ELSE [threw |-> FALSE, text |-> Join(head \o request \o stack \o ip, <<" | ">>)]

(* ------------------------------- state --------------------------------- *)

VARIABLES
  env,             \* process.env: the two group names and AWS_REGION
  srvPc,           \* server.ts start(): where the start-up stands
  srvGroup,        \* initialize(): the group being ensured, "api" or "error"
  initError,       \* the destination call whose failure initialize logged
  clock,           \* the wall clock when it was last read, in UTC midnights
                   \* since the start
  groups,          \* destination: the log groups that exist
  streams,         \* destination: the <<group, stream>> pairs that exist
  accepted,        \* destination: <<group, stream>> -> events accepted so far
  prior,           \* destination: <<group, stream>> -> events the stream held
                   \* when the process started
  sequenceTokens,  \* CloudWatchLogger.sequenceTokens
  currentDate,     \* CloudWatchLogger.currentDate
  tasks,           \* one record per run of a request handler, in starting order
  puts,            \* per task, the PutLogEvents commands it has sent
  fmtIn,           \* formatter harness: the event under format
  fmtOut           \* formatter harness: the result of the last application

vars == <<env, srvPc, srvGroup, initError, clock, groups, streams, accepted,
          prior, sequenceTokens, currentDate, tasks, puts, fmtIn, fmtOut>>

engineVars == <<env, srvPc, srvGroup, initError, clock, groups, streams, accepted,
                prior, sequenceTokens, currentDate, tasks, puts>>

fmtVars == <<fmtIn, fmtOut>>

\* the stream prefix set by initialize (line 28)
logStreamPrefix == <<"a", "p", "i", "-", "l", "o", "g", "s">>

\* the value of an absent (undefined) ordering token
NoToken == [group |-> <<>>, stream |-> <<>>, n |-> 0]

\* the token the destination hands out after the n-th event of a stream
TokenOf(g, s, n) == IF n = 0 THEN NoToken ELSE [group |-> g, stream |-> s, n |-> n]

EmptyMap == [k \in {} |-> NoToken]

\* Map.prototype.get, undefined when the key is absent
MapGet(m, k) == IF k \in DOMAIN m THEN m[k] ELSE NoToken

\* Map.prototype.set keeping the value of a key that is present
MapSetFirst(m, k, v) ==
  [x \in (DOMAIN m) \cup {k} |-> IF x \in DOMAIN m THEN m[x] ELSE v]

\* Map.prototype.set
MapSet(m, k, v) == [x \in (DOMAIN m) \cup {k} |-> IF x = k THEN v ELSE m[x]]

\* the cache key without the group name
streamKeyByStream(logGroupName, logStreamName) == logStreamName

\* sendLogEvent line 57: the cache key of a stream
streamKey(logGroupName, logStreamName) == logGroupName \o <<"-">> \o logStreamName

\* getCurrentDateStreamName without the hyphen after the prefix
getCurrentDateStreamNameJoined(c) == logStreamPrefix \o ISODate(c)

\* getCurrentDateStreamName at clock value c
getCurrentDateStreamName(c) == logStreamPrefix \o <<"-">> \o ISODate(c)

apiLogGroupName == env.api
errorLogGroupName == env.error

\* the values of process.env the model starts from
Envs ==
  {[api |-> <<"/", "a", "p", "i">>, error |-> <<"/", "e", " ", "r">>,
    region |-> <<"ap-northeast-2">>]}

\* the logData records the finish handler of the logging middleware builds
\* (the bodies are the sanitized ones, which are JSON-serialisable or falsy)
ApiEvents ==
  {[method |-> <<"GET">>, endpoint |-> <<"/users">>, statusCode |-> 200,
    responseTime |-> 42, requestBody |-> "emptyObject",
    responseBody |-> "jsonObjectString", ip |-> <<"unknown">>]}

\* the errors that reach the error handler: err.statusCode (0 when absent),
\* the message and the stack, and the body of the request
ErrorInputs ==
  {[statusCode |-> 0, message |-> <<>>, stack |-> <<"Error: boom at x">>,
    body |-> "object"],
   [statusCode |-> 404, message |-> <<"missing">>, stack |-> <<>>, body |-> "undefined"]}

\* Math.random().toString(36).substr(2, 9): up to nine characters, none for 0
RandomParts == {<<"k", "3">>}

IdleTask ==
  [pc |-> "idle", kind |-> "none", logGroupName |-> <<>>, streamName |-> <<>>,
   sequenceToken |-> NoToken, logMessage |-> <<>>,
   errorId |-> <<>>, error |-> "none", ok |-> FALSE, nextSequenceToken |-> NoToken,
   call |-> "none", link |-> <<>>, handler |-> "none",
   status |-> 0, sentBy |-> "none"]

\* the event of the formatter harness before one is drawn
NoEvent ==
  [kind |-> "none", method |-> <<>>, endpoint |-> <<>>, statusCode |-> 0,
   responseTime |-> 0, requestBody |-> "undefined", responseBody |-> "undefined",
   ip |-> <<>>, errorId |-> <<>>, error |-> [message |-> <<>>, stack |-> <<>>]]

NoOutput == [applied |-> FALSE, threw |-> FALSE, text |-> <<>>]

\* what the streams of the destination hold when the process starts: nothing,
\* or, left by an earlier run of the process on the same day, the API stream
\* of the day with one event
PriorStreams(e, gs) ==
  {[k \in {} |-> 0]}
  \cup (IF {e.api, e.error} \subseteq gs
        THEN {[k \in {<<e.api, getCurrentDateStreamName(0)>>} |-> 1]}
        ELSE {})

EngineInit ==
  /\ env \in Envs
  /\ srvPc = "describe"
  /\ srvGroup = "api"
  /\ initError = "none"
  /\ clock = 0
  /\ groups \in SUBSET {env.api, env.error}
  /\ prior \in PriorStreams(env, groups)
  /\ streams = DOMAIN prior
  /\ accepted = prior
  /\ sequenceTokens = EmptyMap
  /\ currentDate = <<>>
  /\ tasks = [t \in Tasks |-> IdleTask]
  /\ puts = [t \in Tasks |-> <<>>]

Init ==
  /\ EngineInit
  /\ fmtIn = NoEvent
  /\ fmtOut = NoOutput

(* ------------------------- server start-up ----------------------------- *)

\* the existence test finding no name at all
existsNever(names, name) == FALSE

\* the existence test finding every name
existsAlways(names, name) == TRUE

\* ensureLogGroupExists lines 160-162 and ensureLogStreamExists lines
\* 189-191: some resource of the answer has exactly the name
exists(names, name) == name \in names

\* the name of the group initialize is ensuring
srvGroupName == IF srvGroup = "api" THEN apiLogGroupName ELSE errorLogGroupName

\* start() listening as soon as one group is ensured
GroupEnsuredOnce == srvGroup' = srvGroup /\ srvPc' = "listening"

\* initialize after ensureLogGroupExists has returned for srvGroup: the error
\* group comes after the API group; after both, start() registers the
\* middleware and the routes and listens
GroupEnsured ==
  IF srvGroup = "api"
  THEN srvGroup' = "error" /\ srvPc' = "describe"
  ELSE srvGroup' = srvGroup /\ srvPc' = "listening"

\* initialize logging the failure without rethrowing it
InitSwallowed(call) ==
  /\ initError' = call
  /\ GroupEnsured

\* ensureLogGroupExists and initialize both log and rethrow; start() rejects
InitFailed(call) ==
  /\ initError' = call
  /\ srvPc' = "aborted"
  /\ UNCHANGED srvGroup

\* the answer to DescribeLogGroupsCommand arrives
DescribeLogGroups ==
  /\ srvPc = "describe"
  /\ \/ InitFailed("describe")
     \/ exists(groups, srvGroupName) /\ GroupEnsured /\ UNCHANGED initError
     \/ /\ ~exists(groups, srvGroupName)
        /\ srvPc' = "create"
        /\ UNCHANGED <<srvGroup, initError>>
  /\ UNCHANGED <<env, prior, clock, groups, streams, accepted, sequenceTokens,
                 currentDate, tasks, puts, fmtVars>>

\* the answer to CreateLogGroupCommand arrives
CreateLogGroup ==
  /\ srvPc = "create"
  /\ \/ InitFailed("create") /\ UNCHANGED groups
     \/ /\ groups' = groups \cup {srvGroupName}
        /\ GroupEnsured
        /\ UNCHANGED initError
  /\ UNCHANGED <<env, prior, clock, streams, accepted, sequenceTokens,
                 currentDate, tasks, puts, fmtVars>>

(* --------------------------- request handlers -------------------------- *)

\* a call has ended: the locals of ensureCurrentDateStreamExists and of
\* sendLogEvent are gone
Ended(tk) ==
  [tk EXCEPT !.pc = "done", !.sequenceToken = NoToken,
             !.ok = FALSE, !.nextSequenceToken = NoToken]

\* logApiRequest or logError raises to its caller.  The finish handler of the
\* logging middleware catches it (part_003 lines 56-76); errorHandler awaits
\* logError outside any try, so its promise rejects before it sends anything.
Raised(tk, call) ==
  [Ended(tk) EXCEPT !.error = call, !.call = "raised",
                    !.handler = IF tk.kind = "api" THEN "returned" ELSE "rejected"]

\* errorHandler lines 17-30, after logError has returned its link: the JSON
\* error response unless the headers are sent already, then next(err).
\* headersSent is res.headersSent as line 20 reads it: the error middleware of
\* server.ts has called next() (line 82) while logError was pending, so the
\* framework may have ended the response by then.
errorHandlerRespond(tk, headersSent) ==
  IF ~headersSent
  THEN [tk EXCEPT !.handler = "returned", !.status = 500, !.sentBy = "errorHandler"]
  ELSE [tk EXCEPT !.handler = "returned", !.status = 404, !.sentBy = "framework"]

\* logApiRequest returns; logError returns the console link (lines 113-118)
Returned(tk, headersSent) ==
  IF tk.kind = "api"
  THEN [Ended(tk) EXCEPT !.call = "returned", !.handler = "returned"]
  ELSE errorHandlerRespond(
         [Ended(tk) EXCEPT !.call = "returned",
                    !.link = generateCloudWatchLink(env.region, errorLogGroupName,
                                                    tk.streamName, tk.errorId)],
         headersSent)

\* ensureLogStreamExists logging the failure and returning, so that the
\* caller goes on to sendLogEvent
ensureLogStreamExistsSwallow(tk, call) == [tk EXCEPT !.pc = "putSent", !.error = call]

\* ensureLogStreamExists lines 202-208: log and rethrow; nothing between it
\* and the caller of logApiRequest / logError catches
ensureLogStreamExistsCatch(tk, call) == Raised(tk, call)

\* sendLogEvent rethrowing the failure of the append
sendLogEventRethrow(tk, headersSent) == Raised(tk, "put")

\* sendLogEvent lines 77-80: log, do not rethrow; the caller goes on
sendLogEventCatch(tk, headersSent) == Returned([tk EXCEPT !.error = "put"], headersSent)

\* sendLogEvent storing the token field of the answer whatever it holds
sendLogEventStoreAlways(m, tk) ==
  MapSet(m, streamKey(tk.logGroupName, tk.streamName), tk.nextSequenceToken)

\* sendLogEvent lines 74-76 on the answer of a successful append
sendLogEventStore(m, tk) ==
  IF tk.nextSequenceToken # NoToken
  THEN MapSet(m, streamKey(tk.logGroupName, tk.streamName), tk.nextSequenceToken)
  ELSE m

\* logError shipping to the group of logApiRequest
groupOfApi(kind) == apiLogGroupName

\* the group logApiRequest / logError ship to
groupOf(kind) == IF kind = "api" THEN apiLogGroupName ELSE errorLogGroupName

\* ensureCurrentDateStreamExists recording the new date and keeping the cache
ensureCurrentDateStreamExistsKeep(t, tk, c1, c2) ==
  /\ clock' = c2
  /\ currentDate' = ISODate(c2)
  /\ UNCHANGED sequenceTokens
  /\ tasks' = [tasks EXCEPT ![t] =
       [tk EXCEPT !.pc = "describeSent", !.call = "pending",
                  !.streamName = getCurrentDateStreamName(c1)]]

\* ensureCurrentDateStreamExists clearing the cache on every call
ensureCurrentDateStreamExistsClear(t, tk, c1, c2) ==
  /\ clock' = c2
  /\ currentDate' = ISODate(c2)
  /\ sequenceTokens' = EmptyMap
  /\ tasks' = [tasks EXCEPT ![t] =
       [tk EXCEPT !.pc = "describeSent", !.call = "pending",
                  !.streamName = getCurrentDateStreamName(c1)]]

\* ensureCurrentDateStreamExists lines 140-149: the stream name from a first
\* reading of the clock (c1), the roll-over from a second one (c2), then the
\* DescribeLogStreamsCommand is sent
ensureCurrentDateStreamExists(t, tk, c1, c2) ==
  LET streamName == getCurrentDateStreamName(c1)
      today == ISODate(c2)
  IN /\ clock' = c2
     /\ IF currentDate # today
        THEN currentDate' = today /\ sequenceTokens' = EmptyMap
        ELSE UNCHANGED <<currentDate, sequenceTokens>>
     /\ tasks' = [tasks EXCEPT ![t] =
          [tk EXCEPT !.pc = "describeSent", !.call = "pending",
                     !.streamName = streamName]]

\* the readings new Date() can give at two successive places of one
\* synchronous run: midnights may have passed since the clock was last read,
\* and one may pass between the two readings
ClockReadings ==
  {r \in (clock..MaxClock) \X (clock..MaxClock) : r[2] \in {r[1], r[1] + 1}}

\* the finish handler of the logging middleware runs (part_003 lines 52-77)
\* up to the first await of logApiRequest
FinishHandler(t) ==
  /\ srvPc = "listening"
  /\ tasks[t].pc = "idle"
  /\ \A u \in 1..(t - 1) : tasks[u].pc # "idle"
  /\ \E logData \in ApiEvents, r \in ClockReadings :
       LET logMessage == formatApiLog(logData)
           tk == [tasks[t] EXCEPT !.kind = "api", !.handler = "pending",
                                  !.logGroupName = groupOf("api"),
                                  !.logMessage = logMessage.text]
       IN IF logMessage.threw
          THEN /\ tasks' = [tasks EXCEPT ![t] = Raised(tk, "format")]
               /\ UNCHANGED <<clock, currentDate, sequenceTokens>>
          ELSE ensureCurrentDateStreamExists(t, tk, r[1], r[2])
  /\ UNCHANGED <<env, prior, srvPc, srvGroup, initError, groups, streams, accepted,
                 puts, fmtVars>>

\* logError lines 85-103: the error event of a request and an error
errorLogData(e, now, rnd) ==
  [errorId |-> <<"E", "R", "R", "_">> \o NatStr(now) \o <<"_">> \o rnd,
   method |-> <<"GET">>, endpoint |-> <<"/errors">>,
   statusCode |-> IF e.statusCode # 0 THEN e.statusCode ELSE 500,
   responseTime |-> 0,
   error |-> [message |-> IF e.message # <<>> THEN e.message
                          ELSE <<"No error message">>,
              stack |-> e.stack],
   requestBody |-> e.body, ip |-> <<>>]

\* the error middleware of server.ts (lines 64-84) calls errorHandler, which
\* runs up to the first await of logError, and then next(); Date.now() is
\* counted in midnights since the start and read with the first new Date()
ErrorHandler(t) ==
  /\ srvPc = "listening"
  /\ tasks[t].pc = "idle"
  /\ \A u \in 1..(t - 1) : tasks[u].pc # "idle"
  /\ \E e \in ErrorInputs, rnd \in RandomParts, r \in ClockReadings :
       LET statusCode == IF e.statusCode # 0 THEN e.statusCode ELSE 500
           data == errorLogData(e, r[1], rnd)
           logMessage == formatErrorLog(data)
           tk == [tasks[t] EXCEPT !.kind = "error", !.handler = "pending",
                                  !.logGroupName = groupOf("error"),
                                  !.errorId = data.errorId,
                                  !.logMessage = logMessage.text]
       IN IF statusCode # 500
          THEN /\ tasks' = [tasks EXCEPT ![t] =
                    [Ended(tk) EXCEPT !.handler = "returned",
                                      !.errorId = <<>>, !.logMessage = <<>>]]
               /\ UNCHANGED <<clock, currentDate, sequenceTokens>>
          ELSE IF logMessage.threw
          THEN /\ tasks' = [tasks EXCEPT ![t] = Raised(tk, "format")]
               /\ UNCHANGED <<clock, currentDate, sequenceTokens>>
          ELSE ensureCurrentDateStreamExists(t, tk, r[1], r[2])
  /\ UNCHANGED <<env, prior, srvPc, srvGroup, initError, groups, streams, accepted,
                 puts, fmtVars>>

(* ------------------------ stream set-up and append --------------------- *)

\* sendLogEvent giving up when the cache holds no token of the stream
sendLogEventSkip(t, tk) ==
  LET sequenceToken == MapGet(sequenceTokens, streamKey(tk.logGroupName, tk.streamName))
  IN IF sequenceToken = NoToken
     THEN /\ tasks' = [tasks EXCEPT ![t] = Returned(tk, FALSE)]
          /\ UNCHANGED puts
     ELSE /\ tasks' = [tasks EXCEPT ![t] =
               [tk EXCEPT !.pc = "putSent", !.sequenceToken = sequenceToken]]
          /\ puts' = [puts EXCEPT ![t] = Append(@,
               [logGroupName |-> tk.logGroupName, logStreamName |-> tk.streamName,
                sequenceToken |-> sequenceToken, logEvents |-> <<tk.logMessage>>])]

\* sendLogEvent lines 57-72: read the cached token of the stream and send the
\* PutLogEventsCommand with one log event
sendLogEvent(t, tk) ==
  LET sequenceToken == MapGet(sequenceTokens, streamKey(tk.logGroupName, tk.streamName))
  IN /\ tasks' = [tasks EXCEPT ![t] =
          [tk EXCEPT !.pc = "putSent", !.sequenceToken = sequenceToken]]
     /\ puts' = [puts EXCEPT ![t] = Append(@,
          [logGroupName |-> tk.logGroupName, logStreamName |-> tk.streamName,
           sequenceToken |-> sequenceToken, logEvents |-> <<tk.logMessage>>])]

\* the answer to DescribeLogStreamsCommand arrives (ensureLogStreamExists
\* lines 188-200)
DescribeLogStreams(t) ==
  LET tk == tasks[t] IN
  /\ tk.pc = "describeSent"
  /\ \/ /\ tasks' = [tasks EXCEPT ![t] = ensureLogStreamExistsCatch(tk, "describe")]
        /\ UNCHANGED puts
     \/ /\ exists(streams, <<tk.logGroupName, tk.streamName>>)
        /\ sendLogEvent(t, tk)
     \/ /\ ~exists(streams, <<tk.logGroupName, tk.streamName>>)
        /\ tasks' = [tasks EXCEPT ![t] = [tk EXCEPT !.pc = "createSent"]]
        /\ UNCHANGED puts
  /\ UNCHANGED <<env, prior, srvPc, srvGroup, initError, clock, groups, streams,
                 accepted, sequenceTokens, currentDate, fmtVars>>

\* the answer to CreateLogStreamCommand arrives: a failure (the destination
\* is unreachable), the rejection of the command because the stream exists
\* by now (ResourceAlreadyExistsException), or the stream is created
CreateLogStream(t) ==
  LET tk == tasks[t]
      k == <<tk.logGroupName, tk.streamName>>
  IN
  /\ tk.pc = "createSent"
  /\ \/ /\ tasks' = [tasks EXCEPT ![t] = ensureLogStreamExistsCatch(tk, "create")]
        /\ UNCHANGED <<streams, accepted, puts>>
     \/ /\ k \in streams
        /\ tasks' = [tasks EXCEPT ![t] = ensureLogStreamExistsCatch(tk, "exists")]
        /\ UNCHANGED <<streams, accepted, puts>>
     \/ /\ k \notin streams
        /\ streams' = streams \cup {k}
        /\ accepted' = [x \in (DOMAIN accepted) \cup {k} |->
                          IF x = k THEN 0 ELSE accepted[x]]
        /\ sendLogEvent(t, tk)
  /\ UNCHANGED <<env, prior, srvPc, srvGroup, initError, clock, groups,
                 sequenceTokens, currentDate, fmtVars>>

\* the destination handles a PutLogEventsCommand: it accepts the event when
\* the command carries the token the stream expects, and answers with the
\* next token (the field is optional); or the command fails, because the
\* token is not the expected one, the destination is unreachable, or the
\* answer is lost after the event was accepted
PutLogEvents(t) ==
  LET tk == tasks[t]
      k == <<tk.logGroupName, tk.streamName>>
      expected == TokenOf(tk.logGroupName, tk.streamName, accepted[k])
      next == TokenOf(tk.logGroupName, tk.streamName, accepted[k] + 1)
  IN
  /\ tk.pc = "putSent"
  /\ \/ /\ tk.sequenceToken = expected
        /\ accepted' = [accepted EXCEPT ![k] = @ + 1]
        /\ \E token \in {next, NoToken} :
             tasks' = [tasks EXCEPT ![t] =
               [tk EXCEPT !.pc = "putAnswered", !.ok = TRUE,
                          !.nextSequenceToken = token]]
     \/ /\ tk.sequenceToken = expected
        /\ accepted' = [accepted EXCEPT ![k] = @ + 1]
        /\ tasks' = [tasks EXCEPT ![t] = [tk EXCEPT !.pc = "putAnswered"]]
     \/ /\ tasks' = [tasks EXCEPT ![t] = [tk EXCEPT !.pc = "putAnswered"]]
        /\ UNCHANGED accepted
  /\ UNCHANGED <<env, prior, srvPc, srvGroup, initError, clock, groups, streams,
                 sequenceTokens, currentDate, puts, fmtVars>>

\* PutAnswer with sendLogEvent sending the command again after a failure
PutAnswerRetry(t) ==
  LET tk == tasks[t] IN
  /\ tk.pc = "putAnswered"
  /\ IF tk.ok
     THEN /\ sequenceTokens' = sendLogEventStore(sequenceTokens, tk)
          /\ tasks' = [tasks EXCEPT ![t] = Returned(tk, FALSE)]
          /\ UNCHANGED puts
     ELSE /\ sendLogEvent(t, tk)
          /\ UNCHANGED sequenceTokens
  /\ UNCHANGED <<env, prior, srvPc, srvGroup, initError, clock, groups, streams,
                 accepted, currentDate, fmtVars>>

\* PutAnswer with sendLogEvent emptying the cache after a failure
PutAnswerForget(t) ==
  LET tk == tasks[t] IN
  /\ tk.pc = "putAnswered"
  /\ IF tk.ok
     THEN /\ sequenceTokens' = sendLogEventStore(sequenceTokens, tk)
          /\ tasks' = [tasks EXCEPT ![t] = Returned(tk, FALSE)]
     ELSE /\ sequenceTokens' = EmptyMap
          /\ tasks' = [tasks EXCEPT ![t] = sendLogEventCatch(tk, FALSE)]
  /\ UNCHANGED <<env, prior, srvPc, srvGroup, initError, clock, groups, streams,
                 accepted, currentDate, puts, fmtVars>>

\* the answer to PutLogEventsCommand reaches sendLogEvent (lines 72-80), and
\* logApiRequest / logError and their caller run to their end
PutAnswer(t) ==
  LET tk == tasks[t] IN
  /\ tk.pc = "putAnswered"
  /\ \E headersSent \in BOOLEAN :
       /\ tk.kind = "api" => ~headersSent
       /\ IF tk.ok
          THEN /\ sequenceTokens' = sendLogEventStore(sequenceTokens, tk)
               /\ tasks' = [tasks EXCEPT ![t] = Returned(tk, headersSent)]
          ELSE /\ tasks' = [tasks EXCEPT ![t] = sendLogEventCatch(tk, headersSent)]
               /\ UNCHANGED sequenceTokens
  /\ UNCHANGED <<env, prior, srvPc, srvGroup, initError, clock, groups, streams,
                 accepted, currentDate, puts, fmtVars>>

Next ==
  \/ DescribeLogGroups
  \/ CreateLogGroup
  \/ \E t \in Tasks : FinishHandler(t)
  \/ \E t \in Tasks : ErrorHandler(t)
  \/ \E t \in Tasks : DescribeLogStreams(t)
  \/ \E t \in Tasks : CreateLogStream(t)
  \/ \E t \in Tasks : PutLogEvents(t)
  \/ \E t \in Tasks : PutAnswer(t)

Spec == Init /\ [][Next]_vars

(* -------------------------- formatter harness -------------------------- *)

\* the example event of the formatter
BaseApiEvent ==
  [NoEvent EXCEPT !.kind = "api", !.method = <<"GET">>, !.endpoint = <<"/users">>,
                  !.statusCode = 200, !.responseTime = 42]

BaseErrorEvent ==
  [NoEvent EXCEPT !.kind = "error", !.method = <<"GET">>, !.endpoint = <<"/errors">>,
                  !.statusCode = 500, !.errorId = <<"E", "R", "R", "1", "2", "3">>,
                  !.error = [message |-> <<"boom">>, stack |-> <<>>]]

\* the events the formatters are applied to: every status code and every
\* response time up to the bounds, and every pair of bodies
FmtInputs ==
  {[BaseApiEvent EXCEPT !.statusCode = c] : c \in (0 - 1)..MaxStatus}
  \cup {[BaseApiEvent EXCEPT !.responseTime = ms] : ms \in (0 - 1)..MaxTime}
  \cup {[BaseApiEvent EXCEPT !.requestBody = rq, !.responseBody = rs, !.ip = ip] :
          rq \in JsValues, rs \in JsValues, ip \in {<<>>, <<"unknown">>}}
  \cup {[BaseErrorEvent EXCEPT !.requestBody = rq, !.error.stack = st, !.ip = ip] :
          rq \in JsValues, st \in {<<>>, <<"Error: boom at x">>},
          ip \in {<<>>, <<"unknown">>}}

InitFmt ==
  /\ EngineInit
  /\ groups = {}
  /\ fmtIn \in FmtInputs
  /\ fmtOut = NoOutput

\* formatApiLog is applied to the event
FormatApi ==
  /\ fmtIn.kind = "api"
  /\ ~fmtOut.applied
  /\ fmtOut' = [applied |-> TRUE, threw |-> formatApiLog(fmtIn).threw,
                text |-> formatApiLog(fmtIn).text]
  /\ UNCHANGED <<engineVars, fmtIn>>

\* formatErrorLog is applied to the event
FormatError ==
  /\ fmtIn.kind = "error"
  /\ ~fmtOut.applied
  /\ fmtOut' = [applied |-> TRUE, threw |-> formatErrorLog(fmtIn).threw,
                text |-> formatErrorLog(fmtIn).text]
  /\ UNCHANGED <<engineVars, fmtIn>>

NextFmt == FormatApi \/ FormatError

SpecFmt == InitFmt /\ [][NextFmt]_vars

(* ------------------------------- claims -------------------------------- *)

\* the start of every console link
LinkHead == <<"https://">> \o env.region \o <<".console.aws.amazon.com/cloudwatch/home">>

\* C1: a call of logApiRequest or logError whose append failed has ended
\* without raising to its caller (the finish handler went on, the error
\* handler was not rejected), and logError has returned a console link: a
\* string that starts as every console link does and names the error group.
C1_AppendFailureSwallowed ==
  \A t \in Tasks :
    tasks[t].error = "put" =>
      /\ tasks[t].pc = "done"
      /\ tasks[t].call = "returned"
      /\ tasks[t].handler = "returned"
      /\ tasks[t].kind = "error" =>
           /\ SubSeq(tasks[t].link, 1, Len(LinkHead)) = LinkHead
           /\ Includes(tasks[t].link, encodeURIComponent(env.error))

\* C1 witness: a logError call whose append failed has returned its link
C1_Witness ==
  \E t \in Tasks :
    /\ tasks[t].kind = "error"
    /\ tasks[t].error = "put"
    /\ tasks[t].call = "returned"
    /\ tasks[t].link # <<>>

\* C2, as claimed: a call of logApiRequest or logError during which the stream
\* existence check or the stream creation failed never raises to its caller.
C2_StreamFailureSwallowed ==
  \A t \in Tasks :
    tasks[t].error \in {"describe", "create"} => tasks[t].call # "raised"

\* C3: when a destination call of initialize has failed, start-up is aborted;
\* an aborted start-up has served no request and shipped nothing; and the
\* server listens only after an initialize without failure, with both groups
\* in place.
C3_InitFailureAborts ==
  /\ initError # "none" => srvPc = "aborted"
  /\ srvPc = "aborted" =>
       /\ initError # "none"
       /\ \A t \in Tasks : tasks[t].pc = "idle" /\ puts[t] = <<>>
  /\ srvPc = "listening" => {env.api, env.error} \subseteq groups

\* C3 witness: the creation of a group failed and start-up is aborted
C3_Witness == initError = "create" /\ srvPc = "aborted"

\* C4, as claimed: an error handler run for a 500 error that has ended has
\* sent the error response, or found the response sent already, whatever the
\* destination calls did.
C4_ErrorResponseSent ==
  \A t \in Tasks :
    (tasks[t].kind = "error" /\ tasks[t].pc = "done" /\ tasks[t].errorId # <<>>)
      => tasks[t].sentBy # "none"

\* the stream names of the dates the clock can show
StreamNameAt == [c \in 0..MaxClock |-> logStreamPrefix \o <<"-">> \o ISODate(c)]

\* the tasks that have sent a PutLogEventsCommand for the stream k
Senders(k) ==
  {t \in Tasks : \E i \in DOMAIN puts[t] :
     <<puts[t][i].logGroupName, puts[t][i].logStreamName>> = k}

\* C5: a call sends at most one PutLogEventsCommand, and exactly one once its
\* stream is ensured; the command of logApiRequest goes to the API group, the
\* one of logError to the error group, to the stream of a date the clock has
\* shown, with one log event holding the formatted line of the call; and a
\* stream has accepted no more events, beyond those it held at the start, than
\* commands were sent to it.
C5_OneAppendPerCall ==
  /\ \A t \in Tasks :
       /\ Len(puts[t]) <= 1
       /\ (tasks[t].pc \in {"putSent", "putAnswered"} \/ tasks[t].call = "returned")
            => Len(puts[t]) = 1
       /\ tasks[t].pc \in {"idle", "describeSent", "createSent"} => puts[t] = <<>>
       /\ \A i \in DOMAIN puts[t] :
            /\ tasks[t].kind = "api" => puts[t][i].logGroupName = env.api
            /\ tasks[t].kind = "error" => puts[t][i].logGroupName = env.error
            /\ puts[t][i].logStreamName = tasks[t].streamName
            /\ \E c \in 0..clock : puts[t][i].logStreamName = StreamNameAt[c]
            /\ Len(puts[t][i].logEvents) = 1
            /\ puts[t][i].logEvents[1] = tasks[t].logMessage
            /\ puts[t][i].logEvents[1] # <<>>
  /\ \A k \in DOMAIN accepted :
       accepted[k] <= (IF k \in DOMAIN prior THEN prior[k] ELSE 0) + Cardinality(Senders(k))

\* C5 witness: a logError call has ended after its one append
C5_Witness ==
  \E t \in Tasks :
    /\ tasks[t].kind = "error"
    /\ tasks[t].call = "returned"
    /\ Len(puts[t]) = 1
    /\ accepted[<<env.error, tasks[t].streamName>>] = 1

\* C6: the link logError returns holds the URL-encoded name of the error
\* group, the URL-encoded name of the stream its event was sent to, and a
\* filter with the error identifier that the message it shipped carries in
\* its ERROR_ID tag.
C6_LinkMatchesEvent ==
  \A t \in Tasks :
    (tasks[t].kind = "error" /\ tasks[t].call = "returned") =>
      /\ Len(puts[t]) = 1
      /\ tasks[t].errorId # <<>>
      /\ Includes(tasks[t].link,
           <<"#logsV2:log-groups/log-group/">> \o encodeURIComponent(env.error)
             \o <<"/log-events/">>
             \o encodeURIComponent(puts[t][1].logStreamName)
             \o <<"?filterPattern=">> \o tasks[t].errorId)
      /\ Includes(puts[t][1].logEvents[1],
           <<" [ERROR_ID: ">> \o tasks[t].errorId \o <<"]">>)

\* C6 witness: a returned link holds the escaped slash and space of the
\* group name
C6_Witness ==
  \E t \in Tasks :
    /\ tasks[t].kind = "error"
    /\ tasks[t].call = "returned"
    /\ Includes(tasks[t].link, <<"%", "2", "F", "e", "%", "2", "0", "r">>)

\* C8, as claimed: the formatters return a string for every event and never
\* raise.
C8_FormatTotal == fmtOut.applied => ~fmtOut.threw

StatusGlyphs == {"CHECK", "CYCLE", "WARNING", "CROSS", "CLIPBOARD"}

LatencyGlyphs == {"BOLT", "GREEN", "YELLOW", "ORANGE", "RED"}

\* the chunks of a text that are glyphs of the set
GlyphsIn(text, glyphs) == {i \in DOMAIN text : text[i] \in glyphs}

\* C9, as claimed: the line of an API event holds exactly one status glyph,
\* the one of the class of its status code, with 5xx ending at 599.
C9_StatusGlyphClaimed ==
  (fmtOut.applied /\ fmtIn.kind = "api" /\ ~fmtOut.threw) =>
    LET c == fmtIn.statusCode IN
    /\ GlyphsIn(fmtOut.text, StatusGlyphs) = {1}
    /\ (c >= 200 /\ c <= 299) => fmtOut.text[1] = "CHECK"
    /\ (c >= 300 /\ c <= 399) => fmtOut.text[1] = "CYCLE"
    /\ (c >= 400 /\ c <= 499) => fmtOut.text[1] = "WARNING"
    /\ (c >= 500 /\ c <= 599) => fmtOut.text[1] = "CROSS"
    /\ (c < 200 \/ c > 599) => fmtOut.text[1] = "CLIPBOARD"

\* C9, amended: the line of an API event holds exactly one status glyph: the
\* 2xx, 3xx and 4xx glyphs for 200-299, 300-399 and 400-499, the 5xx glyph for
\* every code from 500 on, and the fifth glyph for every code below 200.
C9_StatusGlyph ==
  (fmtOut.applied /\ fmtIn.kind = "api" /\ ~fmtOut.threw) =>
    LET c == fmtIn.statusCode IN
    /\ GlyphsIn(fmtOut.text, StatusGlyphs) = {1}
    /\ (c >= 200 /\ c <= 299) => fmtOut.text[1] = "CHECK"
    /\ (c >= 300 /\ c <= 399) => fmtOut.text[1] = "CYCLE"
    /\ (c >= 400 /\ c <= 499) => fmtOut.text[1] = "WARNING"
    /\ c >= 500 => fmtOut.text[1] = "CROSS"
    /\ c < 200 => fmtOut.text[1] = "CLIPBOARD"

\* C9 witness: the line of an event with status code 600
C9_Witness ==
  /\ fmtOut.applied
  /\ fmtIn.kind = "api"
  /\ fmtIn.statusCode = 600
  /\ fmtOut.text[1] = "CROSS"

\* C10: the line of an API event holds exactly one latency glyph, right
\* after the response time, chosen by the breakpoints 100, 500, 1000 and 2000,
\* each of which falls in the higher class.
C10_LatencyGlyph ==
  (fmtOut.applied /\ fmtIn.kind = "api" /\ ~fmtOut.threw) =>
    LET ms == fmtIn.responseTime
        shown(glyph) ==
          Includes(fmtOut.text, <<"Response Time: ">> \o NumStr(ms) \o <<"ms ", glyph>>)
    IN
    /\ Cardinality(GlyphsIn(fmtOut.text, LatencyGlyphs)) = 1
    /\ ms < 100 => shown("BOLT")
    /\ (100 <= ms /\ ms < 500) => shown("GREEN")
    /\ (500 <= ms /\ ms < 1000) => shown("YELLOW")
    /\ (1000 <= ms /\ ms < 2000) => shown("ORANGE")
    /\ ms >= 2000 => shown("RED")

\* C10 witness: the line of an event that took exactly 2000 ms
C10_Witness ==
  /\ fmtOut.applied
  /\ fmtIn.kind = "api"
  /\ fmtIn.responseTime = 2000
  /\ Includes(fmtOut.text, <<"2", "0", "0", "0", "ms ", "RED">>)

\* the values that are objects with at least one key
NonEmptyObjects == {"object", "circular"}

\* the values that are strings of at least one character
NonEmptyStrings == JsStrings \ {"emptyString"}

\* the line holds a part that starts with the label and goes on with the text
PartShown(line, label, text) == Includes(line, <<" | ", label>> \o text)

\* the line holds a part that starts with the label
PartStarted(line, label) == Includes(line, <<" | ", label>>)

\* C11, the Response half and the frame of both statements: the line of an
\* API event holds a Response part exactly when the response body is present
\* and its rendered form is neither empty after trimming nor the text {}, and
\* then the part holds the rendered form.
ResponsePartRule ==
  LET rs == fmtIn.responseBody
      rendered == formatResponse(rs).text
      shown == /\ rs \notin {"undefined", "null"}
               /\ Trim(rendered) # <<>>
               /\ rendered # <<"{", "}">>
  IN /\ PartStarted(fmtOut.text, "Response: ") <=> shown
     /\ shown => PartShown(fmtOut.text, "Response: ", rendered)

ErrorHeadParts ==
  << <<"ALARM", " [ERROR_ID: ">> \o fmtIn.errorId \o <<"]">>,
     <<"[">> \o fmtIn.method \o <<"] ">> \o fmtIn.endpoint,
     <<"Status: ">> \o NumStr(fmtIn.statusCode),
     <<"Response Time: ">> \o NumStr(fmtIn.responseTime) \o <<"ms">>,
     <<"Error: ">> \o fmtIn.error.message >>

\* the optional parts of the line of an error event
ErrorStackPart ==
  IF fmtIn.error.stack # <<>> THEN << <<"Stack: ">> \o fmtIn.error.stack >> ELSE <<>>

ErrorRequestPart ==
  IF fmtIn.requestBody \in NonEmptyObjects \cup NonEmptyStrings
  THEN << <<"Request: ">> \o JsonStringify(fmtIn.requestBody).text >> ELSE <<>>

ErrorIpPart == IF fmtIn.ip # <<>> THEN << <<"IP: ">> \o fmtIn.ip >> ELSE <<>>

\* C12, as claimed: the line of an error event is the identifier tag, the
\* method and endpoint, the status, the latency, the message, then the stack
\* when present, then the request body when shown, then the client IP when
\* present, joined by " | ".
C12_ErrorPartsClaimed ==
  (fmtOut.applied /\ fmtIn.kind = "error" /\ ~fmtOut.threw) =>
    fmtOut.text = Join(ErrorHeadParts \o ErrorStackPart \o ErrorRequestPart
                         \o ErrorIpPart, <<" | ">>)

\* C12, amended: the line of an error event is the identifier tag, the
\* method and endpoint, the status, the latency, the message, then the
\* request body when shown, then the stack when present, then the client IP
\* when present, joined by " | ".
C12_ErrorParts ==
  (fmtOut.applied /\ fmtIn.kind = "error" /\ ~fmtOut.threw) =>
    fmtOut.text = Join(ErrorHeadParts \o ErrorRequestPart \o ErrorStackPart
                         \o ErrorIpPart, <<" | ">>)

\* C12 witness: the line of an error event with a stack, a request body and
\* an IP holds the Request part, then the Stack part, then the IP part
C12_Witness ==
  /\ fmtOut.applied
  /\ fmtIn.kind = "error"
  /\ fmtIn.requestBody = "object"
  /\ Includes(fmtOut.text,
       <<"}", " | ", "Stack: ", "Error: boom at x", " | ", "IP: ", "unknown">>)

\* a call of logApiRequest or logError enters ensureCurrentDateStreamExists
\* in this step
Resolves(t) == tasks[t].pc = "idle" /\ tasks'[t].pc = "describeSent"

\* a text of the form YYYY-MM-DD
IsYMD(d) ==
  /\ Len(d) = 10
  /\ d[5] = "-" /\ d[8] = "-"
  /\ \A i \in {1, 2, 3, 4, 6, 7, 9, 10} :
       d[i] \in {"0", "1", "2", "3", "4", "5", "6", "7", "8", "9"}

\* C13: the stream name a call resolves is the prefix, a hyphen and the
\* YYYY-MM-DD form of a UTC date the clock shows during the call, whatever
\* the kind and the group of the call.
C13_StreamName ==
  [][\A t \in Tasks :
       Resolves(t) =>
         LET name == tasks'[t].streamName
             n == Len(logStreamPrefix)
         IN /\ \E c \in clock..clock' : name = StreamNameAt[c]
            /\ SubSeq(name, 1, n) = logStreamPrefix
            /\ name[n + 1] = "-"
            /\ IsYMD(SubSeq(name, n + 2, Len(name)))]_vars

\* C13 witness: a call on the day after the start has resolved the stream
\* api-logs-2025-01-01
C13_Witness ==
  \E t \in Tasks :
    /\ tasks[t].pc = "describeSent"
    /\ tasks[t].streamName =
         <<"a", "p", "i", "-", "l", "o", "g", "s", "-",
           "2", "0", "2", "5", "-", "0", "1", "-", "0", "1">>

\* C14: a resolution that observes a date other than the recorded one, the
\* unset one of the start included, leaves the token cache empty and the
\* observed date recorded.
C14_Rollover ==
  [][\A t \in Tasks :
       (Resolves(t) /\ currentDate # ISODate(clock')) =>
         /\ sequenceTokens' = EmptyMap
         /\ currentDate' = ISODate(clock')]_vars

\* C14 witness: a call of the first day has returned after its append, a call
\* of the next day is being resolved, the next day is recorded and the cache
\* is empty
C14_Witness ==
  \E t, u \in Tasks :
    /\ tasks[t].call = "returned" /\ tasks[t].error = "none"
    /\ tasks[t].streamName = StreamNameAt[0]
    /\ tasks[u].pc = "describeSent"
    /\ tasks[u].streamName = StreamNameAt[1]
    /\ currentDate = ISODate(1)
    /\ sequenceTokens = EmptyMap

\* C15: a resolution that observes the recorded date changes neither the
\* recorded date nor the cache; and a step after which a key of the cache is
\* gone is a resolution that observed another date, which empties the whole
\* cache, the keys of the other group included.
C15_SameDateKeeps ==
  [][/\ \A t \in Tasks :
          (Resolves(t) /\ currentDate = ISODate(clock')) =>
            UNCHANGED <<currentDate, sequenceTokens>>
     /\ (\E k \in DOMAIN sequenceTokens : k \notin DOMAIN sequenceTokens') =>
          /\ \E t \in Tasks : Resolves(t)
          /\ currentDate # ISODate(clock')
          /\ currentDate' = ISODate(clock')
          /\ sequenceTokens' = EmptyMap]_vars

\* C15 witness: a call is being resolved on the recorded date while the cache
\* holds a token
C15_Witness ==
  \E t \in Tasks :
    /\ tasks[t].pc = "describeSent"
    /\ tasks[t].streamName = logStreamPrefix \o <<"-">> \o currentDate
    /\ sequenceTokens # EmptyMap

\* the cache key of a stream: the group name, a hyphen and the stream name
KeyOf(g, s) == g \o <<"-">> \o s

\* the token a cache holds for a stream, NoToken when it holds none
CachedToken(m, g, s) == IF KeyOf(g, s) \in DOMAIN m THEN m[KeyOf(g, s)] ELSE NoToken

\* the call sends its PutLogEventsCommand in this step
Sends(t) == tasks[t].pc # "putSent" /\ tasks'[t].pc = "putSent"

\* the call takes the answer of an accepted append in this step
TakesAnswer(t) ==
  tasks[t].pc = "putAnswered" /\ tasks[t].ok /\ tasks'[t].pc = "done"

\* the command sent in a step carries the token cached for its stream
SendsCachedToken(t) ==
  Sends(t) =>
    /\ Len(puts'[t]) = Len(puts[t]) + 1
    /\ LET command == puts'[t][Len(puts'[t])] IN
         command.sequenceToken =
           CachedToken(sequenceTokens, command.logGroupName, command.logStreamName)

\* C16, as claimed: an append is sent with the token cached for its stream,
\* and after the answer of an accepted append the cached token of the stream
\* is the token field of the answer, whatever it holds.
C16_TokenReplacedClaimed ==
  [][\A t \in Tasks :
       /\ SendsCachedToken(t)
       /\ TakesAnswer(t) =>
            CachedToken(sequenceTokens', tasks[t].logGroupName, tasks[t].streamName)
              = tasks[t].nextSequenceToken]_vars

\* C16, amended: an append is sent with the token cached for its stream;
\* after the answer of an accepted append that carries a token, the cached
\* token of the stream is that token; an answer without a token leaves the
\* cache as it was.
C16_TokenReplaced ==
  [][\A t \in Tasks :
       /\ SendsCachedToken(t)
       /\ TakesAnswer(t) =>
            IF tasks[t].nextSequenceToken # NoToken
            THEN CachedToken(sequenceTokens', tasks[t].logGroupName, tasks[t].streamName)
                   = tasks[t].nextSequenceToken
            ELSE sequenceTokens' = sequenceTokens]_vars

\* C16 witness: two appends to a stream were accepted and answered, and the
\* cache still holds the token of the first: the second answer had no token
C16_Witness ==
  \E k \in DOMAIN accepted :
    /\ accepted[k] = 2
    /\ CachedToken(sequenceTokens, k[1], k[2]) = TokenOf(k[1], k[2], 1)
    /\ \A t \in Tasks : tasks[t].call = "returned" /\ tasks[t].error = "none"

\* C17: the cache is a map with one token per key; a cached token is one the
\* destination has handed out for the stream of its key; and the token of a
\* key changes only when the answer of an accepted append to that stream is
\* taken, to the token of that answer: it is always the token of the latest
\* such answer.
C17_CacheHoldsLatest ==
  /\ [](\A k \in DOMAIN sequenceTokens :
          LET token == sequenceTokens[k] IN
          /\ token.n >= 1
          /\ KeyOf(token.group, token.stream) = k
          /\ <<token.group, token.stream>> \in DOMAIN accepted
          /\ token.n <= accepted[<<token.group, token.stream>>])
  /\ [][\A k \in DOMAIN sequenceTokens' :
          LET answered == {t \in Tasks :
                /\ TakesAnswer(t)
                /\ tasks[t].nextSequenceToken # NoToken
                /\ KeyOf(tasks[t].logGroupName, tasks[t].streamName) = k}
          IN IF answered # {}
             THEN \E t \in answered : sequenceTokens'[k] = tasks[t].nextSequenceToken
             ELSE k \in DOMAIN sequenceTokens /\ sequenceTokens'[k] = sequenceTokens[k]]_vars

\* C17 witness: the cache holds the token of the second accepted append to a
\* stream
C17_Witness ==
  \E k \in DOMAIN accepted :
    /\ accepted[k] = 2
    /\ CachedToken(sequenceTokens, k[1], k[2]) = TokenOf(k[1], k[2], 2)

\* C18: a call whose stream is ensured while the cache holds no token for it
\* sends its append, with no token; and the token of the answer of an
\* accepted append becomes the first entry of a key the cache did not hold,
\* next to the entries it held.
C18_FirstAppend ==
  [][\A t \in Tasks :
       LET g == tasks[t].logGroupName
           st == tasks[t].streamName
       IN
       /\ ( /\ tasks[t].pc \in {"describeSent", "createSent"}
            /\ tasks'[t].pc \notin {"describeSent", "createSent"}
            /\ tasks'[t].error = "none"
            /\ KeyOf(g, st) \notin DOMAIN sequenceTokens ) =>
              /\ tasks'[t].pc = "putSent"
              /\ Len(puts'[t]) = 1
              /\ puts'[t][1].sequenceToken = NoToken
              /\ puts'[t][1].logGroupName = g
              /\ puts'[t][1].logStreamName = st
       /\ ( /\ TakesAnswer(t)
            /\ tasks[t].nextSequenceToken # NoToken
            /\ KeyOf(g, st) \notin DOMAIN sequenceTokens ) =>
              /\ DOMAIN sequenceTokens' = DOMAIN sequenceTokens \cup {KeyOf(g, st)}
              /\ sequenceTokens'[KeyOf(g, st)] = tasks[t].nextSequenceToken
              /\ \A x \in DOMAIN sequenceTokens : sequenceTokens'[x] = sequenceTokens[x]]_vars

\* C18 witness: a call has returned after an append sent with no token, and
\* the cache holds the first token of its stream
C18_Witness ==
  \E t \in Tasks :
    /\ tasks[t].call = "returned" /\ tasks[t].error = "none"
    /\ Len(puts[t]) = 1
    /\ puts[t][1].sequenceToken = NoToken
    /\ CachedToken(sequenceTokens, tasks[t].logGroupName, tasks[t].streamName)
         = TokenOf(tasks[t].logGroupName, tasks[t].streamName, 1)

\* the group initialize is ensuring
EnsuredGroup == IF srvGroup = "api" THEN env.api ELSE env.error

\* C19: an ensure call whose check finds the resource issues no creation
\* command, one whose check finds it absent issues one, and a call issues at
\* most one; so a call made after another call has ensured the same stream
\* issues none.
C19_EnsureIdempotent ==
  [][/\ \A t \in Tasks :
          LET k == <<tasks[t].logGroupName, tasks[t].streamName>> IN
          /\ (tasks[t].pc = "describeSent" /\ tasks'[t].pc # "describeSent") =>
               /\ k \in streams => tasks'[t].pc # "createSent"
               /\ (k \notin streams /\ tasks'[t].error # "describe")
                    => tasks'[t].pc = "createSent"
          /\ (tasks'[t].pc = "createSent" /\ tasks[t].pc # "createSent") =>
               /\ tasks[t].pc = "describeSent"
               /\ \A u \in Tasks \ {t} :
                    ~ /\ puts[u] # <<>>
                      /\ <<tasks[u].logGroupName, tasks[u].streamName>> = k
     /\ (srvPc = "describe" /\ <<srvPc, srvGroup, initError>>' # <<srvPc, srvGroup, initError>>) =>
          /\ EnsuredGroup \in groups => srvPc' # "create"
          /\ (EnsuredGroup \notin groups /\ initError' = "none") => srvPc' = "create"
     /\ (srvPc' = "create" /\ srvPc # "create") =>
          srvPc = "describe" /\ EnsuredGroup \notin groups]_vars

\* C19 witness: two calls have sent their appends to one stream, which
\* exists: the one that found it issued no creation command
C19_Witness ==
  /\ srvPc = "listening"
  /\ \E t, u \in Tasks :
       /\ t # u
       /\ puts[t] # <<>> /\ puts[u] # <<>>
       /\ tasks[t].logGroupName = tasks[u].logGroupName
       /\ tasks[t].streamName = tasks[u].streamName
       /\ <<tasks[t].logGroupName, tasks[t].streamName>> \in streams

\* C20, as claimed: a call whose creation command was rejected because the
\* stream exists by now goes on as if it had created it: it does not raise,
\* and it sends its append.
C20_AlreadyExistsTolerated ==
  \A t \in Tasks :
    tasks[t].error = "exists" =>
      /\ tasks[t].call # "raised"
      /\ Len(puts[t]) = 1

\* the stream a call has resolved, as the destination names it
StreamOf(t) == <<tasks[t].logGroupName, tasks[t].streamName>>

\* C21: a call that has passed its stream resolution (its append is sent or
\* answered, or the call has returned) has its stream in its group at the
\* destination, and a call that has not passed it has sent no append.
C21_WriteReady ==
  \A t \in Tasks :
    /\ (tasks[t].pc \in {"putSent", "putAnswered"} \/ puts[t] # <<>>
          \/ tasks[t].call = "returned") =>
         /\ StreamOf(t) \in streams
         /\ tasks[t].logGroupName \in groups
         /\ \A i \in DOMAIN puts[t] :
              <<puts[t][i].logGroupName, puts[t][i].logStreamName>> = StreamOf(t)
    /\ tasks[t].pc \in {"idle", "describeSent", "createSent"} => puts[t] = <<>>

\* C21 witness: a call of the second day has sent its append to a stream
\* that the destination holds
C21_Witness ==
  \E t \in Tasks :
    /\ tasks[t].pc = "putSent"
    /\ tasks[t].streamName = StreamNameAt[1]
    /\ StreamOf(t) \in streams

\* the destination handles the command of the call in this step
Handled(t) == tasks[t].pc = "putSent" /\ tasks'[t].pc = "putAnswered"

\* the call takes the failure of its append in this step
TakesFailure(t) ==
  tasks[t].pc = "putAnswered" /\ ~tasks[t].ok /\ tasks'[t].pc # "putAnswered"

\* C22: no call sends its append twice; the call that takes the rejection of
\* its append sends nothing more, ends without raising to its caller and
\* leaves the cache as the answers of the accepted appends have set it.
C22_RejectedDropped ==
  /\ [](\A t \in Tasks : Len(puts[t]) <= 1)
  /\ [][\A t \in Tasks :
          TakesFailure(t) =>
            /\ puts' = puts
            /\ sequenceTokens' = sequenceTokens
            /\ accepted' = accepted
            /\ tasks'[t].pc = "done"
            /\ tasks'[t].call = "returned"
            /\ tasks'[t].handler = "returned"]_vars

\* C22 witness: two calls sent their appends to a new stream without a
\* token; one was accepted and one rejected; both have returned, the stream
\* holds one event and the cache holds the token of the accepted append
C22_Witness ==
  \E t, u \in Tasks :
    /\ t # u
    /\ StreamOf(t) = StreamOf(u)
    /\ StreamOf(t) \notin DOMAIN prior
    /\ tasks[t].call = "returned" /\ tasks[t].error = "none"
    /\ tasks[u].call = "returned" /\ tasks[u].error = "put"
    /\ puts[t][1].sequenceToken = NoToken
    /\ puts[u][1].sequenceToken = NoToken
    /\ accepted[StreamOf(t)] = 1
    /\ CachedToken(sequenceTokens, tasks[t].logGroupName, tasks[t].streamName)
         = TokenOf(tasks[t].logGroupName, tasks[t].streamName, 1)

\* C23, as claimed: the first append to a stream that holds events of an
\* earlier run of the process carries the token the destination expects.
C23_TokenRebuilt ==
  \A t \in Tasks :
    ( /\ tasks[t].pc = "putSent"
      /\ StreamOf(t) \in DOMAIN prior
      /\ accepted[StreamOf(t)] = prior[StreamOf(t)] ) =>
        puts[t][1].sequenceToken =
          TokenOf(tasks[t].logGroupName, tasks[t].streamName, accepted[StreamOf(t)])

\* C24: the cache and the recorded date are changed neither by the step
\* that sends an append, nor by the destination handling it, nor by the step
\* in which the call takes the failure of the append.
C24_FailedAppendFrame ==
  [][\A t \in Tasks :
       (Sends(t) \/ Handled(t) \/ TakesFailure(t)) =>
         UNCHANGED <<sequenceTokens, currentDate>>]_vars

\* C24 witness: a call has ended after the failure of its append while the
\* cache holds a token
C24_Witness ==
  \E t \in Tasks :
    /\ tasks[t].pc = "done"
    /\ tasks[t].error = "put"
    /\ sequenceTokens # EmptyMap
    /\ currentDate # <<>>

\* C25, as claimed: every key of the cache is the key of a stream of the
\* recorded date.
C25_KeysOfActiveDate ==
  \A k \in DOMAIN sequenceTokens :
    \E g \in {env.api, env.error} :
      k = KeyOf(g, logStreamPrefix \o <<"-">> \o currentDate)

\* C26: every append sent carries no token, or a token that the destination
\* handed out for an accepted append to the very group and stream the append
\* is sent to.
C26_TokenOfSameStream ==
  \A t \in Tasks :
    \A i \in DOMAIN puts[t] :
      LET command == puts[t][i]
          token == command.sequenceToken
          k == <<command.logGroupName, command.logStreamName>>
      IN \/ token = NoToken
         \/ /\ token.group = command.logGroupName
            /\ token.stream = command.logStreamName
            /\ k \in DOMAIN accepted
            /\ token.n >= 1
            /\ token.n <= accepted[k]

\* C26 witness: an append in flight carries the token that the destination
\* handed out for the first event of its own stream
C26_Witness ==
  \E t \in Tasks :
    /\ tasks[t].pc = "putSent"
    /\ puts[t][1].sequenceToken =
         TokenOf(puts[t][1].logGroupName, puts[t][1].logStreamName, 1)

\* C27, as claimed: once an append to a stream of the recorded date has
\* failed and no append is in flight, the cache holds the token the
\* destination expects for the stream, so that the next append is accepted.
C27_Recovers ==
  \A k \in DOMAIN accepted :
    ( /\ k \notin DOMAIN prior
      /\ k[2] = logStreamPrefix \o <<"-">> \o currentDate
      /\ \E t \in Tasks : StreamOf(t) = k /\ tasks[t].error = "put"
      /\ \A t \in Tasks : tasks[t].pc \notin {"putSent", "putAnswered"} ) =>
        CachedToken(sequenceTokens, k[1], k[2]) = TokenOf(k[1], k[2], accepted[k])

\* C28, as claimed: the stream name a resolution returns is the one of the
\* date the resolution records.
C28_OneDatePerResolution ==
  [][\A t \in Tasks :
       Resolves(t) =>
         tasks'[t].streamName = logStreamPrefix \o <<"-">> \o currentDate']_vars

\* the failures of ensureLogStreamExists
EnsureFailures == {"describe", "create", "exists"}

\* C29: a call whose stream could not be ensured has ended with no append
\* sent and none in flight, and the step in which its ensuring fails sends
\* nothing and leaves the cache as it was.
C29_NoAppendAfterEnsureFailure ==
  /\ [](\A t \in Tasks :
          tasks[t].error \in EnsureFailures =>
            /\ tasks[t].pc = "done"
            /\ puts[t] = <<>>)
  /\ [][\A t \in Tasks :
          (tasks[t].error = "none" /\ tasks'[t].error \in EnsureFailures) =>
            /\ puts' = puts
            /\ accepted' = accepted
            /\ sequenceTokens' = sequenceTokens]_vars

\* C29 witness: a call has ended on the failure of its stream check while
\* the cache holds the token of another call
C29_Witness ==
  \E t \in Tasks :
    /\ tasks[t].error = "describe"
    /\ puts[t] = <<>>
    /\ sequenceTokens # EmptyMap

\* C30: a request handler has run, a stream was created or an event accepted
\* only when the server listens; the server listens only after initialize
\* has ensured both groups without failure; and the error group is ensured
\* after the API group.
C30_InitFirst ==
  /\ \A t \in Tasks :
       (tasks[t].pc # "idle" \/ puts[t] # <<>>) => srvPc = "listening"
  /\ srvPc # "listening" => (streams = DOMAIN prior /\ accepted = prior)
  /\ srvPc = "listening" =>
       /\ initError = "none"
       /\ srvGroup = "error"
       /\ {env.api, env.error} \subseteq groups
  /\ srvGroup = "error" => env.api \in groups

\* C30 witness: the server listens after having created both groups, and a
\* call is creating its stream
C30_Witness ==
  /\ srvPc = "listening"
  /\ srvGroup = "error"
  /\ \E t \in Tasks : tasks[t].pc = "createSent"

====
